---- MODULE Spec2Model ----
(***************************************************************************)
(* Model of the blog archiver (nathanwang16/blog_scrapper).                *)
(*                                                                         *)
(*   SpecTOC       BlogArchiver.addTOC and the compose step of             *)
(*                 generatePDFWithTOC that calls it                        *)
(*   SpecBatch     the CLI action: validation, init, the job loop,         *)
(*                 generatePDFWithTOC per job, summary, close              *)
(*   SpecViewport  the in-page measurement of detectOptimalViewport        *)
(*   SpecScroll    autoScroll and the scroll promise of the extension      *)
(*   SpecExtract   the heading walk of extractHeadings                     *)
(*   SpecText      the texts addTOC draws (BlogArchiver and PDFGenerator)  *)
(*   SpecExt       the extension's message listener, handlePDFGeneration   *)
(*                 and the context-menu listener                           *)
(*   SpecPopup     the popup's click handler and showStatus                *)
(*                                                                         *)
(* Lengths on a PDF page are in hundredths of a point (pdf-lib's default   *)
(* page is A4, 595.28 x 841.89 pt), so that every comparison of the code   *)
(* is an integer comparison.  Widths of the web page are in CSS pixels.    *)
(***************************************************************************)
EXTENDS Integers, Sequences, FiniteSets, TLC

VARIABLES
    \* ---- addTOC / compose step
    headings,       \* the heading sequence handed to the composer
    pdfBuffer,      \* the content PDF: its pages, in order
    tocPc,          \* position in generatePDFWithTOC's compose step / addTOC
    pdfDoc,         \* addTOC: pages of the document being built
    yPosition,      \* addTOC: the vertical cursor
    hIdx,           \* addTOC: 1-based position of the next heading of the loop
    drawn,          \* addTOC: the TOC entries drawn so far
    tocAllocated,   \* addTOC: number of pdfDoc.addPage() calls for TOC pages
    finalPdf,       \* addTOC: the pages of the document it returns
    outFile,        \* the pages written to outputPath, or NoFile
    \* ---- detectOptimalViewport: the in-page measurement
    candidates,     \* total widths (width + margins) of the present containers
    bodyWidth,      \* document.body.getBoundingClientRect().width
    rights,         \* rect.right of the elements of the document
    bodyScrollWidth,\* document.body.scrollWidth
    htmlScrollWidth,\* document.documentElement.scrollWidth
    vpPc,           \* "page" before the evaluation, "measured" after it
    dimensions,     \* the record the evaluation returns
    \* ---- the CLI action and the archiver it drives
    optWidth,       \* options.width, as the characters given on the command line
    urlsToProcess,  \* the URLs collected from the arguments
    validUrls,      \* the URLs that passed validation, in input order
    invalidReported,\* the URLs reported as invalid, in input order
    cliPc,          \* position in the CLI action
    browser,        \* "none", "open" or "closed"
    viewportWidth,  \* this.viewportWidth: 'auto' or a number of pixels
    pageViewport,   \* width of the page's current viewport
    jobIdx,         \* the loop variable i of the job loop
    jobPc,          \* position of the current job in generatePDFWithTOC
    job,            \* the current job: its headings, style layers, error
    jobs,           \* what each attempted job did, in order of attempt
    results,        \* the result records
    summary,        \* the counts of the final summary
    \* ---- autoScroll: the polling scroll loop in the page
    scrollVariant,  \* "cli" (BlogArchiver.autoScroll) or "extension" (preparePageForPDF)
    scrollHeight,   \* document.body.scrollHeight of the page, now
    totalHeight,    \* the loop's totalHeight
    lastRead,       \* the scrollHeight constant of the latest iteration
    scrollY,        \* window.scrollY
    scrollPc,       \* "running", "settling" (extension: the 1000 ms timer) or "resolved"
    growths,        \* how often the page has grown so far
    \* ---- extractHeadings: the heading walk in the page
    dom,            \* the elements of the document, in document order
    dom0,           \* the document as it was before the walk
    matched,        \* querySelectorAll result: positions in dom, in order
    exIdx,          \* forEach: the index of the next element of the result
    headingsList,   \* the records pushed so far
    exPc,           \* "query", "walk" or "done"
    runs,           \* the sequences returned by the runs of the walk so far
    \* ---- addTOC: the texts it draws
    textVariant,    \* "archiver" (BlogArchiver.addTOC) or "legacy" (PDFGenerator.addTOC)
    docTitle,       \* the title argument
    docUrl,         \* the url argument
    headingTexts,   \* heading.text of the headings, in order
    txPc,           \* "header", "entries" or "done"
    txIdx,          \* 1-based position of the next heading of the loop
    txY,            \* the vertical cursor
    txPages,        \* number of TOC pages added so far
    texts,          \* the drawText calls so far: page, role, text
    \* ---- the extension: the background listener and handlePDFGeneration
    chromePrinting, \* whether chrome.printing exists in this browser
    requests,       \* the messages: action, url, position of the handler, result, answers
    \* ---- the popup: the click handler of the generate button and showStatus
    now,            \* the time in seconds since the popup opened
    clicks,         \* the click events dispatched on the button so far
    handlers,       \* the position of the handler of each click
    buttonDisabled, \* button.disabled
    status,         \* the status element: type, display, when it was shown
    timers,         \* the due times of the pending auto-hide timers
    closeAt,        \* the due time of the pending window.close() timer, or NoTimer
    closed,         \* the popup is closed
    hides           \* what each auto-hide that fired has hidden, and after how long

tocVars == <<headings, pdfBuffer, tocPc, pdfDoc, yPosition, hIdx, drawn,
             tocAllocated, finalPdf, outFile>>

vpVars == <<candidates, bodyWidth, rights, bodyScrollWidth, htmlScrollWidth,
            vpPc, dimensions>>

cliVars == <<optWidth, urlsToProcess, validUrls, invalidReported, cliPc, browser,
             viewportWidth, pageViewport, jobIdx, jobPc, job, jobs, results,
             summary>>

scrollVars == <<scrollVariant, scrollHeight, totalHeight, lastRead, scrollY, scrollPc,
               growths>>

domVars == <<dom, dom0, matched, exIdx, headingsList, exPc, runs>>

textVars == <<textVariant, docTitle, docUrl, headingTexts, txPc, txIdx, txY, txPages,
             texts>>

extVars == <<chromePrinting, requests>>

popupVars == <<now, clicks, handlers, buttonDisabled, status, timers, closeAt, closed,
              hides>>

vars == <<tocVars, vpVars, cliVars, scrollVars, domVars, textVars, extVars, popupVars>>

\* No document (distinct from every sequence of TOC and content pages).
NoFile == <<[kind |-> "nofile", n |-> 0]>>

Max(a, b) == IF a >= b THEN a ELSE b
Min(a, b) == IF a <= b THEN a ELSE b

(***************************************************************************)
(* Bounds of the model                                                     *)
(***************************************************************************)
MaxHeadings == 40
MaxPages == 3
MaxGrowths == 2
MaxDomLen == 3
MaxRequests == 2
MaxRuns == 2
MaxClicks == 2
MaxTime == 7

(***************************************************************************)
(* addTOC: constants of the layout (hundredths of a point)                 *)
(***************************************************************************)
PageHeight == 84189
Margin == 5000
BottomGap == 5000
TitleDrop == 4000
DocTitleDrop == 1000
UrlDrop == 1000
DateDrop == 3000
LineGap == 800
IndentUnit == 20
FirstContentPage == 2

\* The level of the heading at position i of a periodic level pattern.
LevelAt(pat, i) == pat[((i - 1) % Len(pat)) + 1]

LevelPatterns ==
    { <<1>>, <<2>>, <<6>>, <<1, 2>>, <<2, 1, 1>>, <<1, 2, 3>>, <<3, 3, 1, 4>> }

\* extractHeadings returns one record per heading element, in document
\* order; the records are distinct objects (index is their source order).
HeadingInputs ==
    { [i \in 1..h |-> [level |-> LevelAt(pat, i), index |-> i - 1]] :
        h \in 0..MaxHeadings, pat \in LevelPatterns }

ContentPage(j) == [kind |-> "content", n |-> j]
TocPage == [kind |-> "toc", n |-> 0]

\* A content PDF of p pages.
ContentPdf(p) == [j \in 1..p |-> ContentPage(j)]

\* headings.indexOf(heading): zero-based position of the first element that
\* is the same object.
IndexOf(hs, h) == (CHOOSE i \in 1..Len(hs) : hs[i] = h /\ \A j \in 1..(i - 1) : hs[j] # h) - 1

\* An indent that is the same for every level.
IndentFlat(level) == IndentUnit

Indent(level) == (level - 1) * IndentUnit

FontSize(level) == IF level = 1 THEN 1200 ELSE 1000

\* An estimate that counts the headings from 1: the last one needs the clamp.
EstimatedPageOneBased(currentPage, i, pageEstimate, n) ==
    Min(currentPage + (((i + 1) * pageEstimate) \div n), currentPage + pageEstimate - 1)

\* An estimate that counts the headings from the end of the sequence.
EstimatedPageFromEnd(currentPage, i, pageEstimate, n) ==
    Min(currentPage + (((n - 1 - i) * pageEstimate) \div n), currentPage + pageEstimate - 1)

\* Math.min(currentPage + Math.floor(i * pageEstimate / n), currentPage + pageEstimate - 1)
EstimatedPage(currentPage, i, pageEstimate, n) ==
    Min(currentPage + ((i * pageEstimate) \div n), currentPage + pageEstimate - 1)

\* A bottom check that lets the cursor run down to the margin itself.
NeedsNewPageAtMargin(y) == y < Margin

\* if (yPosition < margin + 50)
NeedsNewPage(y) == y < Margin + BottomGap

\* tocPage.drawText(...): every entry is drawn on the page bound to tocPage,
\* the first page of pdfDoc; newTocPage is never drawn on.
DrawPageIndex(doc) == 1

HasHeadingsAlways(hs) == Len(hs) >= 0

\* if (headings.length > 0)
HasHeadings(hs) == Len(hs) > 0

CopiedPagesDropLast(src) == SubSeq(src, 1, Len(src) - 1)

\* pdfDoc.copyPages(existingPdfDoc, existingPdfDoc.getPageIndices())
CopiedPages(src) == src

(***************************************************************************)
(* detectOptimalViewport: the measurement evaluated in the page            *)
(***************************************************************************)
MaxCandidates == 2
MaxElements == 1

MinWidth == 768
MaxWidth == 1400
PadPercent == 105
ProbeViewport == 1920
InitialViewport == 1280

\* Widths and right edges a page may measure, in pixels.
WidthSamples == {0, 731, 732, 1334, 10000}
ScrollSamples == {0, 1000, 10000}

SeqsUpTo(S, n) == UNION { [1..k -> S] : k \in 0..n }

\* The loop over the selectors: the widest present container and whether
\* contentElement was set (a container no wider than 0 never sets it).
RECURSIVE ContentScan(_, _, _)
ContentScan(cands, maxWidth, found) ==
    IF cands = <<>> THEN [maxWidth |-> maxWidth, found |-> found]
    ELSE IF Head(cands) > maxWidth
         THEN ContentScan(Tail(cands), Head(cands), TRUE)
         ELSE ContentScan(Tail(cands), maxWidth, found)

\* maxWidth after the selector loop and the fallback to the body.
ContentWidth(cands, body) ==
    LET scan == ContentScan(cands, 0, FALSE)
    IN IF scan.found THEN scan.maxWidth ELSE body

\* allElements.forEach: documentWidth starts at maxWidth and is raised by
\* every larger rect.right.
RECURSIVE DocumentWidth(_, _)
DocumentWidth(rs, documentWidth) ==
    IF rs = <<>> THEN documentWidth
    ELSE DocumentWidth(Tail(rs), IF Head(rs) > documentWidth THEN Head(rs) ELSE documentWidth)

\* Math.ceil(w * 1.05), w a whole number of pixels.
CeilPad(w) == (w * PadPercent + 99) \div 100

RecommendedWidthNoFloor(documentWidth) == Min(MaxWidth, CeilPad(documentWidth))

\* Math.min(1400, Math.max(768, Math.ceil(documentWidth * 1.05)))
RecommendedWidth(documentWidth) == Min(MaxWidth, Max(MinWidth, CeilPad(documentWidth)))

\* The record the evaluation returns.
Dimensions(cands, body, rs, bodySW, htmlSW) ==
    LET maxWidth == ContentWidth(cands, body)
        documentWidth == DocumentWidth(rs, maxWidth)
    IN [contentWidth |-> maxWidth,
        documentWidth |-> documentWidth,
        scrollWidth |-> Max(bodySW, htmlSW),
        recommendedWidth |-> RecommendedWidth(documentWidth)]

NoDimensions ==
    [contentWidth |-> 0, documentWidth |-> 0, scrollWidth |-> 0, recommendedWidth |-> 0]

ViewportIdle ==
    /\ candidates = <<>>
    /\ bodyWidth = 0
    /\ rights = <<>>
    /\ bodyScrollWidth = 0
    /\ htmlScrollWidth = 0
    /\ vpPc = "idle"
    /\ dimensions = NoDimensions

(***************************************************************************)
(* The CLI action: inputs, the constructor, idle state                     *)
(***************************************************************************)
MaxUrls == 3

DigitValue(c) ==
    CASE c = "0" -> 0 [] c = "1" -> 1 [] c = "2" -> 2 [] c = "3" -> 3 [] c = "4" -> 4
      [] c = "5" -> 5 [] c = "6" -> 6 [] c = "7" -> 7 [] c = "8" -> 8 [] c = "9" -> 9
      [] OTHER -> 0 - 1

IsDigit(c) == DigitValue(c) >= 0

NaN == [nan |-> TRUE, val |-> 0]
Num(n) == [nan |-> FALSE, val |-> n]

\* parseInt(chars): the value of the longest prefix of decimal digits, NaN
\* when the first character is no digit.
RECURSIVE ParseDigits(_, _)
ParseDigits(chars, acc) ==
    IF chars = <<>> \/ ~IsDigit(Head(chars)) THEN acc
    ELSE ParseDigits(Tail(chars), acc * 10 + DigitValue(Head(chars)))

ParseInt(chars) ==
    IF chars = <<>> \/ ~IsDigit(Head(chars)) THEN NaN ELSE Num(ParseDigits(chars, 0))

AutoText == <<"a", "u", "t", "o">>

\* Values of --width on the command line.
WidthOptions ==
    { AutoText, <<"0">>, <<"8", "0", "0">>, <<"1", "2", "8", "0">>,
      <<"9", "0", "0", "p", "x">>, <<"w", "i", "d", "e">> }

AutoWidth == [auto |-> TRUE, px |-> 0]
Pixels(n) == [auto |-> FALSE, px |-> n]

\* options.width === 'auto' ? 'auto' : (parseInt(options.width) || 'auto')
ConstructorWidth(chars) ==
    IF chars = AutoText THEN AutoWidth
    ELSE LET n == ParseInt(chars)
         IN IF n.nan \/ n.val = 0 THEN AutoWidth ELSE Pixels(n.val)

NeedsDetectionAuto(w) == w.auto

\* if (this.viewportWidth === 1280 || this.viewportWidth === 'auto')
NeedsDetection(w) == (~w.auto /\ w.px = InitialViewport) \/ w.auto

\* The URLs of the model; the last one is not accepted by new URL().
SiteA == "https://a.example/post"
SiteB == "https://b.example/post"
Malformed == "not a url"
UrlInputs == {SiteA, SiteB, Malformed}

\* new URL(url) does not throw
WellFormed(url) == url # Malformed

\* documentWidth as detectOptimalViewport measures it on the page of url.
DocumentWidthOf(url) ==
    CASE url = SiteA -> 900
      [] OTHER -> 1219

\* A validation loop that gives up at the first malformed entry.
RECURSIVE FilterValidUntilBad(_)
FilterValidUntilBad(urls) ==
    IF urls = <<>> THEN <<>>
    ELSE IF WellFormed(Head(urls)) THEN <<Head(urls)>> \o FilterValidUntilBad(Tail(urls))
         ELSE <<>>

RECURSIVE FilterValid(_)
FilterValid(urls) ==
    IF urls = <<>> THEN <<>>
    ELSE IF WellFormed(Head(urls)) THEN <<Head(urls)>> \o FilterValid(Tail(urls))
         ELSE FilterValid(Tail(urls))

RECURSIVE FilterInvalid(_)
FilterInvalid(urls) ==
    IF urls = <<>> THEN <<>>
    ELSE IF WellFormed(Head(urls)) THEN FilterInvalid(Tail(urls))
         ELSE <<Head(urls)>> \o FilterInvalid(Tail(urls))

\* results.filter(r => r.status === st).length
CountStatus(rs, st) == Cardinality({ k \in 1..Len(rs) : rs[k].status = st })

\* The working data of a job; NoJob between jobs.
\* --delay: the default text of the option, and parseInt(options.delay) || 2000.
DelayOption == <<"2", "0", "0", "0">>
DefaultDelay == 2000
Delay ==
    LET d == ParseInt(DelayOption)
    IN IF d.nan \/ d.val = 0 THEN DefaultDelay ELSE d.val

\* if (i < validUrls.length - 1 && validUrls.length > 1): the wait that follows
\* the success record of the job at index i of n.
DelayAfter(i, n) == IF i < n - 1 /\ n > 1 THEN Delay ELSE 0

\* The steps of detectOptimalViewport: page.goto, then page.evaluate.
DetectSteps == <<"navigate", "measure">>

\* An extractHeadings that walks the headings before it scrolls.
ExtractStepsScrollLast == <<"navigate", "extract", "stabilize">>

\* The steps of extractHeadings: page.goto, autoScroll, page.evaluate.
ExtractSteps == <<"navigate", "stabilize", "extract">>

\* A style step that adds the corrective layer whatever the overflow check says.
StyleLayersAlwaysCorrective(hasOverflow) == <<"primary", "corrective">>

\* page.addStyleTag of the print styles, then, if checkForOverflow reports
\* an overflow, page.addStyleTag of the corrective styles.
StyleLayers(hasOverflow) ==
    IF hasOverflow THEN <<"primary", "corrective">> ELSE <<"primary">>

NoJob ==
    [headingCount |-> 0, styleLayers |-> 0, error |-> "none", steps |-> <<>>,
     styles |-> <<>>, overflow |-> FALSE]

NoSummary == [succeeded |-> 0 - 1, failed |-> 0 - 1]

CliIdle ==
    /\ optWidth = AutoText
    /\ urlsToProcess = <<>>
    /\ validUrls = <<>>
    /\ invalidReported = <<>>
    /\ cliPc = "idle"
    /\ browser = "none"
    /\ viewportWidth = AutoWidth
    /\ pageViewport = 0
    /\ jobIdx = 0
    /\ jobPc = "idle"
    /\ job = NoJob
    /\ jobs = <<>>
    /\ results = <<>>
    /\ summary = NoSummary

ScrollIdle ==
    /\ scrollVariant = "cli"
    /\ scrollHeight = 0
    /\ totalHeight = 0
    /\ lastRead = 0
    /\ scrollY = 0
    /\ scrollPc = "idle"
    /\ growths = 0

DomIdle ==
    /\ dom = <<>>
    /\ dom0 = <<>>
    /\ matched = <<>>
    /\ exIdx = 0
    /\ headingsList = <<>>
    /\ exPc = "idle"
    /\ runs = <<>>

TextIdle ==
    /\ textVariant = "archiver"
    /\ docTitle = <<>>
    /\ docUrl = <<>>
    /\ headingTexts = <<>>
    /\ txPc = "idle"
    /\ txIdx = 1
    /\ txY = 0
    /\ txPages = 0
    /\ texts = <<>>

ExtIdle ==
    /\ chromePrinting = FALSE
    /\ requests = <<>>

NoTimer == 0 - 1
NoStatus == [type |-> "none", visible |-> FALSE, since |-> 0]

PopupIdle ==
    /\ now = 0
    /\ clicks = 0
    /\ handlers = <<>>
    /\ buttonDisabled = FALSE
    /\ status = NoStatus
    /\ timers = {}
    /\ closeAt = NoTimer
    /\ closed = TRUE
    /\ hides = {}

(***************************************************************************)
(* The compose step of generatePDFWithTOC and addTOC                       *)
(***************************************************************************)
TOCIdle ==
    /\ headings = <<>>
    /\ pdfBuffer = <<>>
    /\ tocPc = "idle"
    /\ pdfDoc = <<>>
    /\ yPosition = 0
    /\ hIdx = 1
    /\ drawn = <<>>
    /\ tocAllocated = 0
    /\ finalPdf = NoFile
    /\ outFile = NoFile

InitTOC ==
    /\ headings \in HeadingInputs
    /\ pdfBuffer \in { ContentPdf(p) : p \in 0..MaxPages }
    /\ tocPc = "compose"
    /\ pdfDoc = <<>>
    /\ yPosition = 0
    /\ hIdx = 1
    /\ drawn = <<>>
    /\ tocAllocated = 0
    /\ finalPdf = NoFile
    /\ outFile = NoFile
    /\ ViewportIdle
    /\ CliIdle
    /\ ScrollIdle
    /\ DomIdle
    /\ TextIdle
    /\ ExtIdle
    /\ PopupIdle

\* generatePDFWithTOC, no headings: the content PDF is written as it is.
WriteContentOnly ==
    /\ tocPc = "compose"
    /\ ~HasHeadings(headings)
    /\ outFile' = pdfBuffer
    /\ tocPc' = "written"
    /\ UNCHANGED <<headings, pdfBuffer, pdfDoc, yPosition, hIdx, drawn,
                   tocAllocated, finalPdf>>
    /\ UNCHANGED <<vpVars, cliVars, scrollVars, domVars, textVars, extVars, popupVars>>

\* addTOC up to the loop: load, create, the first TOC page and its header.
AddTOCBegin ==
    /\ tocPc = "compose"
    /\ HasHeadings(headings)
    /\ pdfDoc' = <<TocPage>>
    /\ tocAllocated' = 1
    /\ yPosition' = (PageHeight - Margin) - TitleDrop - DocTitleDrop - UrlDrop - DateDrop
    /\ hIdx' = 1
    /\ drawn' = <<>>
    /\ tocPc' = "layout"
    /\ UNCHANGED <<headings, pdfBuffer, finalPdf, outFile>>
    /\ UNCHANGED <<vpVars, cliVars, scrollVars, domVars, textVars, extVars, popupVars>>

\* One iteration of the loop over the headings.
LayoutEntry ==
    /\ tocPc = "layout"
    /\ hIdx <= Len(headings)
    /\ LET heading == headings[hIdx]
           newPage == NeedsNewPage(yPosition)
           doc1 == IF newPage THEN Append(pdfDoc, TocPage) ELSE pdfDoc
           y1 == IF newPage THEN PageHeight - Margin ELSE yPosition
           fontSize == FontSize(heading.level)
           est == EstimatedPage(FirstContentPage, IndexOf(headings, heading),
                                Len(pdfBuffer), Len(headings))
       IN /\ pdfDoc' = doc1
          /\ tocAllocated' = IF newPage THEN tocAllocated + 1 ELSE tocAllocated
          /\ drawn' = Append(drawn,
                 [index |-> heading.index, level |-> heading.level,
                  page |-> DrawPageIndex(doc1), x |-> Indent(heading.level),
                  y |-> y1, est |-> est,
                  tocBefore |-> Len(pdfDoc), tocAt |-> Len(doc1),
                  allocated |-> newPage])
          /\ yPosition' = y1 - (fontSize + LineGap)
    /\ hIdx' = hIdx + 1
    /\ UNCHANGED <<headings, pdfBuffer, tocPc, finalPdf, outFile>>
    /\ UNCHANGED <<vpVars, cliVars, scrollVars, domVars, textVars, extVars, popupVars>>

\* addTOC after the loop: copy the content pages, set the metadata, save.
CopyPages ==
    /\ tocPc = "layout"
    /\ hIdx > Len(headings)
    /\ pdfDoc' = pdfDoc \o CopiedPages(pdfBuffer)
    /\ finalPdf' = pdfDoc \o CopiedPages(pdfBuffer)
    /\ tocPc' = "merged"
    /\ UNCHANGED <<headings, pdfBuffer, yPosition, hIdx, drawn, tocAllocated, outFile>>
    /\ UNCHANGED <<vpVars, cliVars, scrollVars, domVars, textVars, extVars, popupVars>>

\* generatePDFWithTOC: fs.writeFile(outputPath, finalPdf)
WriteFinal ==
    /\ tocPc = "merged"
    /\ outFile' = finalPdf
    /\ tocPc' = "written"
    /\ UNCHANGED <<headings, pdfBuffer, pdfDoc, yPosition, hIdx, drawn,
                   tocAllocated, finalPdf>>
    /\ UNCHANGED <<vpVars, cliVars, scrollVars, domVars, textVars, extVars, popupVars>>

NextTOC ==
    \/ WriteContentOnly
    \/ AddTOCBegin
    \/ LayoutEntry
    \/ CopyPages
    \/ WriteFinal

SpecTOC == InitTOC /\ [][NextTOC]_vars

(***************************************************************************)
(* Properties of addTOC and the compose step (checked under SpecTOC)       *)
(***************************************************************************)
PageCount == Len(pdfBuffer)

\* C1: for H >= 1 and P >= 1, every estimated page number lies in
\* [basePageOffset, basePageOffset + P - 1], where basePageOffset is the
\* number of TOC pages allocated before that heading, plus 1.
C1_EstimateInBaseRange ==
    \A k \in 1..Len(drawn) :
        PageCount >= 1 =>
            /\ drawn[k].est >= drawn[k].tocBefore + 1
            /\ drawn[k].est <= drawn[k].tocBefore + 1 + PageCount - 1

\* C2: every page number written into the TOC is a position of the merged
\* document that holds a copied content page: K < est <= K + P, with K the
\* number of TOC pages of the output.
C2_EstimatePointsAtContent ==
    (tocPc \in {"merged", "written"} /\ finalPdf # NoFile /\ PageCount >= 1) =>
        \A k \in 1..Len(drawn) :
            /\ drawn[k].est > tocAllocated
            /\ drawn[k].est <= tocAllocated + PageCount
            /\ drawn[k].est \in 1..Len(finalPdf)
            /\ finalPdf[drawn[k].est].kind = "content"

\* C3: the document addTOC returns is the K TOC pages allocated during
\* layout followed by the P content pages in their original order; its page
\* count is K + P.
C3_MergedIsTocThenContent ==
    finalPdf # NoFile =>
        /\ Len(finalPdf) = tocAllocated + PageCount
        /\ \A k \in 1..tocAllocated : finalPdf[k] = TocPage
        /\ \A j \in 1..PageCount : finalPdf[tocAllocated + j] = pdfBuffer[j]

C3_Witness ==
    /\ finalPdf # NoFile
    /\ tocAllocated >= 2
    /\ PageCount >= 2

\* C4: with an empty heading sequence the content bytes are written
\* unchanged: no TOC page is added and the output has P pages.
C4_NoHeadingsContentUnchanged ==
    (tocPc = "written" /\ Len(headings) = 0) =>
        /\ outFile = pdfBuffer
        /\ Len(outFile) = PageCount
        /\ tocAllocated = 0
        /\ \A j \in 1..Len(outFile) : outFile[j].kind = "content"

C4_Witness ==
    /\ tocPc = "written"
    /\ Len(headings) = 0
    /\ PageCount >= 2
    /\ outFile = pdfBuffer

\* No two entries drawn so far share a page and a vertical position.
EntriesNeverOverlap ==
    \A k \in 1..Len(drawn) : \A j \in 1..(k - 1) :
        ~(drawn[j].page = drawn[k].page /\ drawn[j].y = drawn[k].y)

\* C5: the bottom-margin check is made before every heading; when it
\* allocates a new TOC page, that heading and the following ones are drawn
\* on the newly allocated page, so no two TOC entries are drawn on the same
\* page at the same vertical position.
C5_EntriesOnNewestPageNoOverlap ==
    /\ \A k \in 1..Len(drawn) : drawn[k].page = drawn[k].tocAt
    /\ EntriesNeverOverlap

(***************************************************************************)
(* detectOptimalViewport: the evaluation, on every page of the samples     *)
(***************************************************************************)
InitViewport ==
    /\ candidates \in SeqsUpTo(WidthSamples, MaxCandidates)
    /\ bodyWidth \in WidthSamples
    /\ rights \in SeqsUpTo(WidthSamples, MaxElements)
    /\ bodyScrollWidth \in ScrollSamples
    /\ htmlScrollWidth \in ScrollSamples
    /\ vpPc = "page"
    /\ dimensions = NoDimensions
    /\ TOCIdle
    /\ CliIdle
    /\ ScrollIdle
    /\ DomIdle
    /\ TextIdle
    /\ ExtIdle
    /\ PopupIdle

\* page.evaluate(() => { ... return {contentWidth, ..., recommendedWidth} })
MeasurePage ==
    /\ vpPc = "page"
    /\ dimensions' = Dimensions(candidates, bodyWidth, rights,
                                bodyScrollWidth, htmlScrollWidth)
    /\ vpPc' = "measured"
    /\ UNCHANGED <<candidates, bodyWidth, rights, bodyScrollWidth, htmlScrollWidth>>
    /\ UNCHANGED <<tocVars, cliVars, scrollVars, domVars, textVars, extVars, popupVars>>

NextViewport == MeasurePage

SpecViewport == InitViewport /\ [][NextViewport]_vars

\* C9: the recommended width is always within [768, 1400], whatever the
\* page measures, a zero-width and a 10000px-wide document included.
C9_RecommendedWithinBounds ==
    vpPc = "measured" =>
        /\ dimensions.recommendedWidth >= 768
        /\ dimensions.recommendedWidth <= 1400

C9_Witness ==
    /\ vpPc = "measured"
    /\ dimensions.documentWidth = 0
    /\ dimensions.scrollWidth = 0
    /\ dimensions.recommendedWidth = 768

\* The widest of the three tracked widths: the widest candidate container
\* (the body when there is none), the largest right edge, the scroll width.
TrackedMax == Max(dimensions.documentWidth, dimensions.scrollWidth)

\* C10: the recommended width equals
\* clamp(ceil(max(trackedWidths) * 1.05), 768, 1400), the tracked widths
\* being the widest content container, the largest right edge over all
\* elements and the document's scroll width.
C10_RecommendedFromAllTracked ==
    vpPc = "measured" =>
        dimensions.recommendedWidth =
            Min(1400, Max(768, (TrackedMax * 105 + 99) \div 100))

(***************************************************************************)
(* The CLI action and generatePDFWithTOC, job by job                       *)
(***************************************************************************)
InitBatch ==
    /\ optWidth \in WidthOptions
    /\ urlsToProcess \in SeqsUpTo(UrlInputs, MaxUrls)
    /\ validUrls = <<>>
    /\ invalidReported = <<>>
    /\ cliPc = "start"
    /\ browser = "none"
    /\ viewportWidth = ConstructorWidth(optWidth)
    /\ pageViewport = 0
    /\ jobIdx = 0
    /\ jobPc = "idle"
    /\ job = NoJob
    /\ jobs = <<>>
    /\ results = <<>>
    /\ summary = NoSummary
    /\ TOCIdle
    /\ ViewportIdle
    /\ ScrollIdle
    /\ DomIdle
    /\ TextIdle
    /\ ExtIdle
    /\ PopupIdle

NewJob(url) ==
    [url |-> url, detected |-> FALSE, rendered |-> FALSE, renderWidth |-> 0,
     written |-> FALSE, threw |-> FALSE, delayAfter |-> 0]

CurrentJob == jobs[Len(jobs)]

UpdateJob(f, v) == [jobs EXCEPT ![Len(jobs)] = [@ EXCEPT ![f] = v]]

\* No URL at all: the help is shown and the process ends.
ShowHelp ==
    /\ cliPc = "start"
    /\ urlsToProcess = <<>>
    /\ cliPc' = "help"
    /\ UNCHANGED <<optWidth, urlsToProcess, validUrls, invalidReported, browser,
                   viewportWidth, pageViewport, jobIdx, jobPc, job, jobs, results, summary>>
    /\ UNCHANGED <<tocVars, vpVars, scrollVars, domVars, textVars, extVars, popupVars>>

\* The validation loop, and the exit when no valid URL is left.
ValidateUrls ==
    /\ cliPc = "start"
    /\ urlsToProcess # <<>>
    /\ validUrls' = FilterValid(urlsToProcess)
    /\ invalidReported' = FilterInvalid(urlsToProcess)
    /\ cliPc' = IF FilterValid(urlsToProcess) = <<>> THEN "exit1" ELSE "setup"
    /\ UNCHANGED <<optWidth, urlsToProcess, browser, viewportWidth, pageViewport,
                   jobIdx, jobPc, job, jobs, results, summary>>
    /\ UNCHANGED <<tocVars, vpVars, scrollVars, domVars, textVars, extVars, popupVars>>

\* fs.mkdir and archiver.init() succeed: the browser runs and the page has
\* its initial viewport.
SetUp ==
    /\ cliPc = "setup"
    /\ browser' = "open"
    /\ pageViewport' = IF viewportWidth.auto THEN InitialViewport ELSE viewportWidth.px
    /\ cliPc' = "loop"
    /\ UNCHANGED <<optWidth, urlsToProcess, validUrls, invalidReported, viewportWidth,
                   jobIdx, jobPc, job, jobs, results, summary>>
    /\ UNCHANGED <<tocVars, vpVars, scrollVars, domVars, textVars, extVars, popupVars>>

\* fs.mkdir or a step of archiver.init() throws, before or after the launch:
\* the outer catch ends the process with process.exit(1).
SetUpFails ==
    /\ cliPc = "setup"
    /\ \E launched \in BOOLEAN : browser' = IF launched THEN "open" ELSE "none"
    /\ cliPc' = "exit1"
    /\ UNCHANGED <<optWidth, urlsToProcess, validUrls, invalidReported, viewportWidth,
                   pageViewport, jobIdx, jobPc, job, jobs, results, summary>>
    /\ UNCHANGED <<tocVars, vpVars, scrollVars, domVars, textVars, extVars, popupVars>>

\* The head of the job loop and the call of generatePDFWithTOC.
JobBegin ==
    /\ cliPc = "loop"
    /\ jobPc = "idle"
    /\ jobIdx < Len(validUrls)
    /\ jobs' = Append(jobs, NewJob(validUrls[jobIdx + 1]))
    /\ job' = NoJob
    /\ jobPc' = "viewport"
    /\ UNCHANGED <<optWidth, urlsToProcess, validUrls, invalidReported, cliPc, browser,
                   viewportWidth, pageViewport, jobIdx, results, summary>>
    /\ UNCHANGED <<tocVars, vpVars, scrollVars, domVars, textVars, extVars, popupVars>>

\* detectOptimalViewport succeeds; its result becomes this.viewportWidth
\* and the viewport of the page.
DetectViewport ==
    /\ cliPc = "loop"
    /\ jobPc = "viewport"
    /\ NeedsDetection(viewportWidth)
    /\ LET optimalWidth == RecommendedWidth(DocumentWidthOf(CurrentJob.url))
       IN /\ viewportWidth' = Pixels(optimalWidth)
          /\ pageViewport' = optimalWidth
    /\ jobs' = UpdateJob("detected", TRUE)
    /\ job' = [job EXCEPT !.steps = @ \o DetectSteps]
    /\ jobPc' = "extract"
    /\ UNCHANGED <<optWidth, urlsToProcess, validUrls, invalidReported, cliPc, browser,
                   jobIdx, results, summary>>
    /\ UNCHANGED <<tocVars, vpVars, scrollVars, domVars, textVars, extVars, popupVars>>

\* The width is taken as it is: no detection for this job.
SkipDetection ==
    /\ cliPc = "loop"
    /\ jobPc = "viewport"
    /\ ~NeedsDetection(viewportWidth)
    /\ jobPc' = "extract"
    /\ UNCHANGED <<optWidth, urlsToProcess, validUrls, invalidReported, cliPc, browser,
                   viewportWidth, pageViewport, jobIdx, job, jobs, results, summary>>
    /\ UNCHANGED <<tocVars, vpVars, scrollVars, domVars, textVars, extVars, popupVars>>

\* page.goto does not reach network-idle within 60 s, in
\* detectOptimalViewport (after its setViewport) or in extractHeadings.
NavigationTimeout ==
    /\ cliPc = "loop"
    /\ jobPc \in {"viewport", "extract"}
    /\ jobPc = "viewport" => NeedsDetection(viewportWidth)
    /\ pageViewport' = IF jobPc = "viewport" THEN ProbeViewport ELSE pageViewport
    /\ job' = [job EXCEPT !.error = "NavigationTimeout"]
    /\ jobs' = UpdateJob("threw", TRUE)
    /\ jobPc' = "thrown"
    /\ UNCHANGED <<optWidth, urlsToProcess, validUrls, invalidReported, cliPc, browser,
                   viewportWidth, jobIdx, results, summary>>
    /\ UNCHANGED <<tocVars, vpVars, scrollVars, domVars, textVars, extVars, popupVars>>

\* extractHeadings: navigation, autoScroll, the heading walk.
ExtractHeadings ==
    /\ cliPc = "loop"
    /\ jobPc = "extract"
    /\ \E h \in {0, 2} :
          job' = [job EXCEPT !.headingCount = h, !.steps = @ \o ExtractSteps]
    /\ jobPc' = "style"
    /\ UNCHANGED <<optWidth, urlsToProcess, validUrls, invalidReported, cliPc, browser,
                   viewportWidth, pageViewport, jobIdx, jobs, results, summary>>
    /\ UNCHANGED <<tocVars, vpVars, scrollVars, domVars, textVars, extVars, popupVars>>

\* The style layer, the overflow check and, on overflow, the second layer.
InjectStyles ==
    /\ cliPc = "loop"
    /\ jobPc = "style"
    /\ \E hasOverflow \in BOOLEAN :
          job' = [job EXCEPT !.styleLayers = IF hasOverflow THEN 2 ELSE 1,
                             !.styles = StyleLayers(hasOverflow),
                             !.overflow = hasOverflow,
                             !.steps = Append(@, "style")]
    /\ jobPc' = "render"
    /\ UNCHANGED <<optWidth, urlsToProcess, validUrls, invalidReported, cliPc, browser,
                   viewportWidth, pageViewport, jobIdx, jobs, results, summary>>
    /\ UNCHANGED <<tocVars, vpVars, scrollVars, domVars, textVars, extVars, popupVars>>

\* page.pdf(pdfOptions): the page is rendered at its current viewport.
RenderPdf ==
    /\ cliPc = "loop"
    /\ jobPc = "render"
    /\ jobs' = [jobs EXCEPT ![Len(jobs)] =
                   [@ EXCEPT !.rendered = TRUE, !.renderWidth = pageViewport]]
    /\ job' = [job EXCEPT !.steps = Append(@, "render")]
    /\ jobPc' = "compose"
    /\ UNCHANGED <<optWidth, urlsToProcess, validUrls, invalidReported, cliPc, browser,
                   viewportWidth, pageViewport, jobIdx, results, summary>>
    /\ UNCHANGED <<tocVars, vpVars, scrollVars, domVars, textVars, extVars, popupVars>>

\* addTOC when there are headings, then fs.writeFile.
ComposeAndWrite ==
    /\ cliPc = "loop"
    /\ jobPc = "compose"
    /\ jobs' = UpdateJob("written", TRUE)
    /\ job' = [job EXCEPT !.steps = Append(@, "compose")]
    /\ jobPc' = "stat"
    /\ UNCHANGED <<optWidth, urlsToProcess, validUrls, invalidReported, cliPc, browser,
                   viewportWidth, pageViewport, jobIdx, results, summary>>
    /\ UNCHANGED <<tocVars, vpVars, scrollVars, domVars, textVars, extVars, popupVars>>

\* fs.stat, the report, return outputPath.
StatAndReturn ==
    /\ cliPc = "loop"
    /\ jobPc = "stat"
    /\ jobPc' = "returned"
    /\ UNCHANGED <<optWidth, urlsToProcess, validUrls, invalidReported, cliPc, browser,
                   viewportWidth, pageViewport, jobIdx, job, jobs, results, summary>>
    /\ UNCHANGED <<tocVars, vpVars, scrollVars, domVars, textVars, extVars, popupVars>>

StepError(pc) ==
    CASE pc = "style" -> "EvaluateError"
      [] pc = "render" -> "RenderError"
      [] pc = "compose" -> "ComposeOrWriteError"
      [] OTHER -> "StatError"

\* Any other awaited step of generatePDFWithTOC throws; its catch rethrows.
StepThrows ==
    /\ cliPc = "loop"
    /\ jobPc \in {"style", "render", "compose", "stat"}
    /\ job' = [job EXCEPT !.error = StepError(jobPc)]
    /\ jobs' = UpdateJob("threw", TRUE)
    /\ jobPc' = "thrown"
    /\ UNCHANGED <<optWidth, urlsToProcess, validUrls, invalidReported, cliPc, browser,
                   viewportWidth, pageViewport, jobIdx, results, summary>>
    /\ UNCHANGED <<tocVars, vpVars, scrollVars, domVars, textVars, extVars, popupVars>>

\* generatePDFWithTOC returned: the success record, the delay, i++.
JobSucceeded ==
    /\ cliPc = "loop"
    /\ jobPc = "returned"
    /\ results' = Append(results, [url |-> validUrls[jobIdx + 1], status |-> "success",
                                    error |-> "none"])
    /\ jobs' = UpdateJob("delayAfter", DelayAfter(jobIdx, Len(validUrls)))
    /\ jobIdx' = jobIdx + 1
    /\ job' = NoJob
    /\ jobPc' = "idle"
    /\ UNCHANGED <<optWidth, urlsToProcess, validUrls, invalidReported, cliPc, browser,
                   viewportWidth, pageViewport, summary>>
    /\ UNCHANGED <<tocVars, vpVars, scrollVars, domVars, textVars, extVars, popupVars>>

\* A catch that records the failure and leaves the loop.
JobFailedBreak ==
    /\ cliPc = "loop"
    /\ jobPc = "thrown"
    /\ results' = Append(results, [url |-> validUrls[jobIdx + 1], status |-> "failed",
                                    error |-> job.error])
    /\ jobIdx' = Len(validUrls)
    /\ job' = NoJob
    /\ jobPc' = "idle"
    /\ UNCHANGED <<optWidth, urlsToProcess, validUrls, invalidReported, cliPc, browser,
                   viewportWidth, pageViewport, jobs, summary>>
    /\ UNCHANGED <<tocVars, vpVars, scrollVars, domVars, textVars, extVars, popupVars>>

\* generatePDFWithTOC threw: the catch of the loop body records the failure,
\* then i++.
JobFailed ==
    /\ cliPc = "loop"
    /\ jobPc = "thrown"
    /\ results' = Append(results, [url |-> validUrls[jobIdx + 1], status |-> "failed",
                                    error |-> job.error])
    /\ jobIdx' = jobIdx + 1
    /\ job' = NoJob
    /\ jobPc' = "idle"
    /\ UNCHANGED <<optWidth, urlsToProcess, validUrls, invalidReported, cliPc, browser,
                   viewportWidth, pageViewport, jobs, summary>>
    /\ UNCHANGED <<tocVars, vpVars, scrollVars, domVars, textVars, extVars, popupVars>>

\* After the loop: the summary, then archiver.close() in the finally block.
Summarize ==
    /\ cliPc = "loop"
    /\ jobPc = "idle"
    /\ jobIdx >= Len(validUrls)
    /\ summary' = [succeeded |-> CountStatus(results, "success"),
                   failed |-> CountStatus(results, "failed")]
    /\ browser' = IF browser = "open" THEN "closed" ELSE browser
    /\ cliPc' = "done"
    /\ UNCHANGED <<optWidth, urlsToProcess, validUrls, invalidReported, viewportWidth,
                   pageViewport, jobIdx, jobPc, job, jobs, results>>
    /\ UNCHANGED <<tocVars, vpVars, scrollVars, domVars, textVars, extVars, popupVars>>

NextBatch ==
    \/ ShowHelp
    \/ ValidateUrls
    \/ SetUp
    \/ SetUpFails
    \/ JobBegin
    \/ DetectViewport
    \/ SkipDetection
    \/ NavigationTimeout
    \/ ExtractHeadings
    \/ InjectStyles
    \/ RenderPdf
    \/ ComposeAndWrite
    \/ StatAndReturn
    \/ StepThrows
    \/ JobSucceeded
    \/ JobFailed
    \/ Summarize

SpecBatch == InitBatch /\ [][NextBatch]_vars

(***************************************************************************)
(* Properties of the batch (checked under SpecBatch)                       *)
(***************************************************************************)
\* C6: a failure of job i, a navigation timeout included, aborts only job
\* i: every valid URL gets exactly one result record, success or failed,
\* in input order, every later job is still attempted, and the summary's
\* succeeded count plus its failed count is the number of valid URLs.
C6_FailureAbortsOnlyItsJob ==
    /\ Len(results) <= Len(validUrls)
    /\ Len(results) <= Len(jobs)
    /\ \A k \in 1..Len(results) :
          /\ results[k].url = validUrls[k]
          /\ jobs[k].url = validUrls[k]
          /\ results[k].status \in {"success", "failed"}
          /\ results[k].status = "failed" <=> jobs[k].threw
    /\ (cliPc = "loop" /\ jobPc = "idle") =>
          /\ Len(results) = jobIdx
          /\ Len(jobs) = jobIdx
    /\ cliPc = "done" =>
          /\ Len(results) = Len(validUrls)
          /\ Len(jobs) = Len(validUrls)
          /\ summary.succeeded + summary.failed = Len(validUrls)
          /\ summary.failed = Cardinality({ k \in 1..Len(jobs) : jobs[k].threw })

C6_Witness ==
    /\ cliPc = "done"
    /\ Len(validUrls) = 3
    /\ results[1].status = "failed"
    /\ results[1].error = "NavigationTimeout"
    /\ results[2].status = "success"
    /\ results[3].status = "failed"
    /\ summary = [succeeded |-> 1, failed |-> 2]

\* C7: with automatic width, detection runs for every job: the width job N
\* is rendered at is computed from job N's own page measurement, never the
\* width detected for an earlier job.
C7_WidthDetectedPerJob ==
    ConstructorWidth(optWidth).auto =>
        \A k \in 1..Len(jobs) :
            jobs[k].rendered =>
                /\ jobs[k].detected
                /\ jobs[k].renderWidth = RecommendedWidth(DocumentWidthOf(jobs[k].url))

\* C8: with an explicit numeric width, whatever positive value it has,
\* detection is not run for the job and the page is rendered at that width.
C8_ManualWidthDisablesDetection ==
    ~ConstructorWidth(optWidth).auto =>
        \A k \in 1..Len(jobs) :
            /\ ~jobs[k].detected
            /\ jobs[k].rendered => jobs[k].renderWidth = ConstructorWidth(optWidth).px

\* C11: malformed URLs are filtered out before any job starts and before
\* the browser is launched; every malformed entry is reported and the
\* validation goes on; the surviving list is the input list without the
\* malformed entries, in the same order; with no valid URL left the process
\* exits non-zero without launching the browser.
C11_MalformedUrlsFilteredFirst ==
    /\ cliPc = "start" => (validUrls = <<>> /\ invalidReported = <<>>)
    /\ cliPc \in {"start", "help", "setup"} => (browser = "none" /\ jobs = <<>>)
    /\ cliPc \in {"setup", "loop", "done", "exit1"} =>
          /\ validUrls = SelectSeq(urlsToProcess, WellFormed)
          /\ invalidReported = SelectSeq(urlsToProcess, LAMBDA u : ~WellFormed(u))
    /\ cliPc \in {"setup", "loop", "done"} => validUrls # <<>>
    /\ (cliPc = "exit1" /\ validUrls = <<>>) => (browser = "none" /\ jobs = <<>>)
    /\ (urlsToProcess # <<>> /\ SelectSeq(urlsToProcess, WellFormed) = <<>>) =>
          cliPc \in {"start", "exit1"}
    /\ \A k \in 1..Len(jobs) : WellFormed(jobs[k].url)

C11_Witness ==
    /\ cliPc = "done"
    /\ Len(urlsToProcess) = 3
    /\ ~WellFormed(urlsToProcess[2])
    /\ Len(validUrls) = 2
    /\ Len(invalidReported) = 1
    /\ Len(jobs) = 2

\* C12: an output file is written only for a job that ends as a success; a
\* job recorded as failed has written no file.
C12_FailedJobWritesNoFile ==
    \A k \in 1..Len(results) :
        results[k].status = "failed" => ~jobs[k].written

\* C13: between two consecutive jobs the batch waits the configured delay,
\* whatever the outcome of the earlier job.
C13_DelayBetweenConsecutiveJobs ==
    \A k \in 1..Len(jobs) : k > 1 => jobs[k - 1].delayAfter = Delay

Count(seq, x) == Cardinality({ k \in 1..Len(seq) : seq[k] = x })

JobSteps == <<"navigate", "stabilize", "extract", "style", "render", "compose">>

\* C14 as stated: a job that returns has navigated once and rendered once, in
\* the order navigate, stabilize, extract, style, render, compose.
C14_OneNavigationOneRender ==
    (cliPc = "loop" /\ jobPc = "returned") => job.steps = JobSteps

ExpectedSteps(detected) ==
    (IF detected THEN <<"navigate", "measure">> ELSE <<>>) \o JobSteps

IsPrefix(a, b) == Len(a) <= Len(b) /\ a = SubSeq(b, 1, Len(a))

\* C14: a job's steps happen strictly one after another in the order
\* navigate, stabilize, extract, style, render, compose, preceded by one more
\* navigation and a measurement when the viewport detection runs; a job that
\* returns has rendered exactly once and navigated once, or twice with
\* detection.
C14_StepsInOrder ==
    (cliPc = "loop" /\ jobPc # "idle") =>
        /\ IsPrefix(job.steps, ExpectedSteps(CurrentJob.detected))
        /\ jobPc \in {"stat", "returned"} =>
              /\ job.steps = ExpectedSteps(CurrentJob.detected)
              /\ Count(job.steps, "render") = 1
              /\ Count(job.steps, "navigate") = IF CurrentJob.detected THEN 2 ELSE 1

C14_Witness ==
    /\ cliPc = "loop"
    /\ jobPc = "returned"
    /\ CurrentJob.detected
    /\ Count(job.steps, "navigate") = 2

C14_WitnessNoDetection ==
    /\ cliPc = "loop"
    /\ jobPc = "returned"
    /\ ~CurrentJob.detected
    /\ job.steps = JobSteps

\* C16: the primary style layer is injected once per job; the corrective
\* layer follows it, once, exactly when the overflow check reports an
\* overflow; there is no other style injection.
C16_CorrectiveLayerOnlyOnOverflow ==
    cliPc = "loop" =>
        /\ jobPc \in {"viewport", "extract", "style"} => job.styles = <<>>
        /\ jobPc \in {"render", "compose", "stat", "returned"} =>
              /\ Count(job.styles, "primary") = 1
              /\ job.styles[1] = "primary"
              /\ Count(job.styles, "corrective") = IF job.overflow THEN 1 ELSE 0
              /\ Len(job.styles) = IF job.overflow THEN 2 ELSE 1
        /\ Len(job.styles) <= 2

C16_Witness ==
    /\ cliPc = "loop"
    /\ jobPc = "returned"
    /\ job.overflow
    /\ job.styles = <<"primary", "corrective">>

C16_WitnessNoOverflow ==
    /\ cliPc = "loop"
    /\ jobPc = "returned"
    /\ ~job.overflow
    /\ job.styles = <<"primary">>

(***************************************************************************)
(* autoScroll (CLI) and the scroll promise of preparePageForPDF (extension)*)
(***************************************************************************)
Distance == 100
ViewportHeight == 720

\* Scroll heights of the page when the loop starts, and the amounts by which
\* lazily loaded content makes it grow.
InitialHeights == {0, 250, 900, 1500}
GrowthSteps == {300, 1000}

\* A stop test that needs the scrolled distance to exceed the height.
ShouldStopStrict(total, height) == total > height

\* if (totalHeight >= scrollHeight)
ShouldStop(total, height) == total >= height

\* window.scrollBy(0, d): the position moves down by d, up to the last
\* position the page allows.
ScrollBy(y, d, height) == Min(y + d, Max(0, height - ViewportHeight))

InitScroll ==
    /\ scrollVariant \in {"cli", "extension"}
    /\ scrollHeight \in InitialHeights
    /\ totalHeight = 0
    /\ lastRead = 0
    /\ scrollY = 0
    /\ scrollPc = "running"
    /\ growths = 0
    /\ TOCIdle
    /\ ViewportIdle
    /\ CliIdle
    /\ DomIdle
    /\ TextIdle
    /\ ExtIdle
    /\ PopupIdle

\* Content loads while the loop runs: the page gets taller.
PageGrows ==
    /\ scrollPc = "running"
    /\ growths < MaxGrowths
    /\ \E g \in GrowthSteps : scrollHeight' = scrollHeight + g
    /\ growths' = growths + 1
    /\ UNCHANGED <<scrollVariant, totalHeight, lastRead, scrollY, scrollPc>>
    /\ UNCHANGED <<tocVars, vpVars, cliVars, domVars, textVars, extVars, popupVars>>

\* One firing of the interval timer.
ScrollTick ==
    /\ scrollPc = "running"
    /\ lastRead' = scrollHeight
    /\ totalHeight' = totalHeight + Distance
    /\ IF ShouldStop(totalHeight + Distance, scrollHeight)
       THEN /\ scrollY' = 0
            /\ scrollPc' = IF scrollVariant = "extension" THEN "settling" ELSE "resolved"
       ELSE /\ scrollY' = ScrollBy(scrollY, Distance, scrollHeight)
            /\ scrollPc' = "running"
    /\ UNCHANGED <<scrollVariant, scrollHeight, growths>>
    /\ UNCHANGED <<tocVars, vpVars, cliVars, domVars, textVars, extVars, popupVars>>

\* Extension only: setTimeout(resolve, 1000) fires.
ScrollSettled ==
    /\ scrollPc = "settling"
    /\ scrollPc' = "resolved"
    /\ UNCHANGED <<scrollVariant, scrollHeight, totalHeight, lastRead, scrollY, growths>>
    /\ UNCHANGED <<tocVars, vpVars, cliVars, domVars, textVars, extVars, popupVars>>

NextScroll == PageGrows \/ ScrollTick \/ ScrollSettled

SpecScroll == InitScroll /\ [][NextScroll]_vars

\* The timers of the page fire as long as they are armed.
SpecScrollFair == SpecScroll /\ WF_vars(ScrollTick) /\ WF_vars(ScrollSettled)

ScrollStopped == scrollPc \in {"settling", "resolved"}

C15_LoopState ==
    /\ totalHeight % Distance = 0
    /\ (scrollPc = "running" /\ totalHeight > 0) => totalHeight < lastRead
    /\ ScrollStopped =>
          /\ totalHeight > 0
          /\ totalHeight >= lastRead
          /\ totalHeight - Distance < lastRead \/ totalHeight = Distance
          /\ scrollY = 0

C15_Iteration ==
    /\ totalHeight' # totalHeight =>
          /\ totalHeight' = totalHeight + Distance
          /\ lastRead' = scrollHeight
          /\ ~ScrollStopped' => scrollY' >= scrollY
    /\ (scrollPc = "running" /\ scrollPc' # "running") => scrollY' = 0
    /\ ScrollStopped => totalHeight' = totalHeight /\ scrollY' = scrollY

\* C15: every iteration adds 100 to the scrolled distance and reads the
\* scroll height anew; the loop goes on while the distance is below the
\* height just read and stops at the first iteration where it has reached
\* it, scrolling back to the top; the promise resolves only with the scroll
\* position at 0; once the page stops growing the loop ends and the promise
\* resolves.
C15_AutoScrollStopsAtHeight ==
    /\ []C15_LoopState
    /\ [][C15_Iteration]_vars
    /\ <>(scrollPc = "resolved")

C15_Witness ==
    /\ scrollPc = "resolved"
    /\ growths = MaxGrowths
    /\ totalHeight > 1500
    /\ scrollY = 0

(***************************************************************************)
(* extractHeadings: the evaluation in the page                             *)
(***************************************************************************)
Element(tag, id, text) == [tag |-> tag, id |-> id, text |-> text]

\* Elements a document is made of: headings with and without an id, with
\* text to trim, and elements that are no headings.
ElementKinds ==
    { Element(<<"H", "1">>, "", <<" ", "A", " ">>),
      Element(<<"H", "1">>, "intro", <<"A">>),
      Element(<<"H", "3">>, "", <<"B", " ">>),
      Element(<<"H", "6">>, "heading-1", <<"C">>),
      Element(<<"H", "6">>, "", <<>>),
      Element(<<"H", "R">>, "", <<>>),
      Element(<<"P">>, "p1", <<"D">>),
      Element(<<"D", "I", "V">>, "", <<" ">>) }

\* 'h1, h2, h3, h4, h5, h6'
HeadingTags == { <<"H", d>> : d \in {"1", "2", "3", "4", "5", "6"} }

\* document.querySelectorAll(selector): the matching elements in document
\* order, as positions in the document.
QuerySelectorAll(d) ==
    SelectSeq([k \in 1..Len(d) |-> k], LAMBDA k : d[k].tag \in HeadingTags)

\* parseInt(element.tagName.substring(1))
Level(tag) == ParseInt(Tail(tag)).val

IsSpace(c) == c = " "

RECURSIVE TrimStart(_)
TrimStart(t) == IF t # <<>> /\ IsSpace(Head(t)) THEN TrimStart(Tail(t)) ELSE t

RECURSIVE TrimEnd(_)
TrimEnd(t) ==
    IF t # <<>> /\ IsSpace(t[Len(t)]) THEN TrimEnd(SubSeq(t, 1, Len(t) - 1)) ELSE t

\* element.textContent.trim()
Trim(t) == TrimEnd(TrimStart(t))

\* `heading-${index}`
SynthId(index) == "heading-" \o ToString(index)

\* An id that is always made from the index.
HeadingIdAlwaysSynth(el, index) == SynthId(index)

\* element.id || `heading-${index}`
HeadingId(el, index) == IF el.id # "" THEN el.id ELSE SynthId(index)

InitExtract ==
    /\ dom \in SeqsUpTo(ElementKinds, MaxDomLen)
    /\ dom0 = dom
    /\ matched = <<>>
    /\ exIdx = 0
    /\ headingsList = <<>>
    /\ exPc = "query"
    /\ runs = <<>>
    /\ TOCIdle
    /\ ViewportIdle
    /\ CliIdle
    /\ ScrollIdle
    /\ TextIdle
    /\ ExtIdle
    /\ PopupIdle

\* const elements = document.querySelectorAll(...)
QueryHeadings ==
    /\ exPc = "query"
    /\ matched' = QuerySelectorAll(dom)
    /\ exPc' = "walk"
    /\ UNCHANGED <<dom, dom0, exIdx, headingsList, runs>>
    /\ UNCHANGED <<tocVars, vpVars, cliVars, scrollVars, textVars, extVars, popupVars>>

\* One call of the forEach callback.
VisitHeading ==
    /\ exPc = "walk"
    /\ exIdx < Len(matched)
    /\ LET pos == matched[exIdx + 1]
           element == dom[pos]
           id == HeadingId(element, exIdx)
       IN /\ dom' = IF element.id = "" THEN [dom EXCEPT ![pos].id = id] ELSE dom
          /\ headingsList' = Append(headingsList,
                                    [level |-> Level(element.tag),
                                     text |-> Trim(element.text),
                                     id |-> id,
                                     pageNumber |-> "null"])
    /\ exIdx' = exIdx + 1
    /\ UNCHANGED <<dom0, matched, exPc, runs>>
    /\ UNCHANGED <<tocVars, vpVars, cliVars, scrollVars, textVars, extVars, popupVars>>

\* return headingsList
ReturnHeadings ==
    /\ exPc = "walk"
    /\ exIdx = Len(matched)
    /\ exPc' = "done"
    /\ runs' = Append(runs, headingsList)
    /\ UNCHANGED <<dom, dom0, matched, exIdx, headingsList>>
    /\ UNCHANGED <<tocVars, vpVars, cliVars, scrollVars, textVars, extVars, popupVars>>

\* The evaluation is run once more on the document as the last run left it.
ExtractAgain ==
    /\ exPc = "done"
    /\ Len(runs) < MaxRuns
    /\ matched' = <<>>
    /\ exIdx' = 0
    /\ headingsList' = <<>>
    /\ exPc' = "query"
    /\ UNCHANGED <<dom, dom0, runs>>
    /\ UNCHANGED <<tocVars, vpVars, cliVars, scrollVars, textVars, extVars, popupVars>>

NextExtract == QueryHeadings \/ VisitHeading \/ ReturnHeadings \/ ExtractAgain

SpecExtract == InitExtract /\ [][NextExtract]_vars

HeadingPositions == { k \in 1..Len(dom0) : dom0[k].tag \in HeadingTags }

\* The position in the document of the j-th heading element.
NthHeading(j) ==
    CHOOSE k \in HeadingPositions :
        Cardinality({ m \in HeadingPositions : m < k }) = j - 1

DigitOfTag(tag) ==
    CASE tag = <<"H", "1">> -> 1 [] tag = <<"H", "2">> -> 2 [] tag = <<"H", "3">> -> 3
      [] tag = <<"H", "4">> -> 4 [] tag = <<"H", "5">> -> 5 [] OTHER -> 6

\* C17: the walk returns one record per h1..h6 element, in document order,
\* with the level of the tag (1..6); the id is the element's own id when it
\* has one, else heading-<index> with the index of the record, and that id
\* is then on the element; other elements stay as they were; a document
\* without headings gives the empty sequence.
C17_OneRecordPerHeading ==
    exPc = "done" =>
        /\ Len(headingsList) = Cardinality(HeadingPositions)
        /\ Len(dom) = Len(dom0)
        /\ \A j \in 1..Len(headingsList) :
              LET k == NthHeading(j)
              IN /\ headingsList[j].level = DigitOfTag(dom0[k].tag)
                 /\ headingsList[j].level \in 1..6
                 /\ dom0[k].id # "" => headingsList[j].id = dom0[k].id
                 /\ dom0[k].id = "" => headingsList[j].id = "heading-" \o ToString(j - 1)
                 /\ dom[k].id = headingsList[j].id
                 /\ dom[k].tag = dom0[k].tag
        /\ \A k \in 1..Len(dom0) : k \notin HeadingPositions => dom[k] = dom0[k]
        /\ HeadingPositions = {} => headingsList = <<>>

C17_Witness ==
    /\ exPc = "done"
    /\ Len(dom0) = 3
    /\ dom0[1].tag = <<"P">>
    /\ Len(headingsList) = 2
    /\ headingsList[1].id = "intro"
    /\ headingsList[2].id = "heading-1"
    /\ dom0[3].id = ""
    /\ dom[3].id = "heading-1"

C17_WitnessNoHeadings ==
    /\ exPc = "done"
    /\ dom0 # <<>>
    /\ headingsList = <<>>

(***************************************************************************)
(* addTOC: the texts drawn on the TOC, in BlogArchiver and in PDFGenerator *)
(***************************************************************************)
HeadingTextLimit == 60
UrlTextLimit == 70

\* Lengths of the title, the URL and the heading texts.
TextLengths == {0, 60, 61, 70, 71}

\* Numbers of headings: one page of entries, and more than one.
TextHeadingCounts == {1, MaxHeadings}

\* A text of n characters, the k-th being the last digit of k.
TextOfLength(n) == [k \in 1..n |-> ToString(k % 10)]

Ellipsis == <<".", ".", ".">>

\* s.substring(0, n)
Substring0(t, n) == SubSeq(t, 1, Min(n, Len(t)))

\* heading.text.substring(0, 60) + (heading.text.length > 60 ? '...' : '')
HeadingLabel(t) ==
    Substring0(t, HeadingTextLimit) \o (IF Len(t) > HeadingTextLimit THEN Ellipsis ELSE <<>>)

\* BlogArchiver: url.substring(0, 70) + (url.length > 70 ? '...' : '');
\* PDFGenerator: url.
UrlLabel(variant, url) ==
    IF variant = "legacy" THEN url
    ELSE Substring0(url, UrlTextLimit) \o (IF Len(url) > UrlTextLimit THEN Ellipsis ELSE <<>>)

\* tocPage.drawText(title, ...)
TitleLabel(title) == title

\* 'Table of Contents'
TocTitle ==
    <<"T", "a", "b", "l", "e", " ", "o", "f", " ", "C", "o", "n", "t", "e",
      "n", "t", "s">>

\* new Date().toLocaleDateString('en-US', {year, month: 'long', day}), on one day.
ArchiveDate ==
    <<"N", "o", "v", "e", "m", "b", "e", "r", " ", "2", ",", " ", "2", "0",
      "2", "6">>

\* `Archived: ${date}`
DateLabel(date) ==
    <<"A", "r", "c", "h", "i", "v", "e", "d", ":", " ">> \o date

DrawnText(page, role, text) == [page |-> page, role |-> role, text |-> text]

\* The header lines of the first TOC page: PDFGenerator draws no date line.
HeaderTexts(variant, title, url) ==
    <<DrawnText(1, "tocTitle", TocTitle),
      DrawnText(1, "docTitle", TitleLabel(title)),
      DrawnText(1, "url", UrlLabel(variant, url))>>
    \o (IF variant = "legacy" THEN <<>> ELSE <<DrawnText(1, "date", DateLabel(ArchiveDate))>>)

\* The cursor below the header.
HeaderBottom(variant) ==
    (PageHeight - Margin) - TitleDrop - DocTitleDrop
    - (IF variant = "legacy" THEN DateDrop ELSE UrlDrop + DateDrop)

TextLevels == <<1, 2>>

InitText ==
    /\ textVariant \in {"archiver", "legacy"}
    /\ docTitle \in { TextOfLength(n) : n \in TextLengths }
    /\ docUrl \in { TextOfLength(n) : n \in TextLengths }
    /\ headingTexts \in { [k \in 1..c |-> TextOfLength(IF k = 1 THEN n ELSE k)] :
                            c \in TextHeadingCounts, n \in TextLengths }
    /\ txPc = "header"
    /\ txIdx = 1
    /\ txY = 0
    /\ txPages = 0
    /\ texts = <<>>
    /\ TOCIdle
    /\ ViewportIdle
    /\ CliIdle
    /\ ScrollIdle
    /\ DomIdle
    /\ ExtIdle
    /\ PopupIdle

\* The first TOC page and its header.
DrawHeader ==
    /\ txPc = "header"
    /\ txPages' = 1
    /\ texts' = HeaderTexts(textVariant, docTitle, docUrl)
    /\ txY' = HeaderBottom(textVariant)
    /\ txPc' = "entries"
    /\ UNCHANGED <<textVariant, docTitle, docUrl, headingTexts, txIdx>>
    /\ UNCHANGED <<tocVars, vpVars, cliVars, scrollVars, domVars, extVars, popupVars>>

\* One iteration of the loop over the headings: the text of the entry.
DrawEntryText ==
    /\ txPc = "entries"
    /\ txIdx <= Len(headingTexts)
    /\ LET newPage == NeedsNewPage(txY)
           y1 == IF newPage THEN PageHeight - Margin ELSE txY
       IN /\ txPages' = IF newPage THEN txPages + 1 ELSE txPages
          /\ texts' = Append(texts, DrawnText(1, "entry", HeadingLabel(headingTexts[txIdx])))
          /\ txY' = y1 - (FontSize(LevelAt(TextLevels, txIdx)) + LineGap)
    /\ txIdx' = txIdx + 1
    /\ UNCHANGED <<textVariant, docTitle, docUrl, headingTexts, txPc>>
    /\ UNCHANGED <<tocVars, vpVars, cliVars, scrollVars, domVars, extVars, popupVars>>

\* The loop is over.
EntriesDrawn ==
    /\ txPc = "entries"
    /\ txIdx > Len(headingTexts)
    /\ txPc' = "done"
    /\ UNCHANGED <<textVariant, docTitle, docUrl, headingTexts, txIdx, txY, txPages, texts>>
    /\ UNCHANGED <<tocVars, vpVars, cliVars, scrollVars, domVars, extVars, popupVars>>

NextText == DrawHeader \/ DrawEntryText \/ EntriesDrawn

SpecText == InitText /\ [][NextText]_vars

\* A text cut to its first n characters and an ellipsis when it is longer.
CutTo(t, n) == IF Len(t) > n THEN SubSeq(t, 1, n) \o <<".", ".", ".">> ELSE t

TextsOfRole(role) == SelectSeq(texts, LAMBDA d : d.role = role)

\* C18: on the TOC a heading text longer than 60 characters is drawn as its
\* first 60 characters and an ellipsis, a URL longer than 70 characters as
\* its first 70 characters and an ellipsis; shorter texts are drawn as they
\* are.
C18_LongTextsTruncated ==
    txPc = "done" =>
        /\ Len(TextsOfRole("entry")) = Len(headingTexts)
        /\ \A k \in 1..Len(headingTexts) :
              TextsOfRole("entry")[k].text = CutTo(headingTexts[k], 60)
        /\ Len(TextsOfRole("url")) = 1
        /\ TextsOfRole("url")[1].text = CutTo(docUrl, 70)

\* C19: the header is drawn once, on the first TOC page; the document title
\* in it is cut to 70 characters and an ellipsis when it is longer.
C19_HeaderOnceTitleTruncated ==
    txPc = "done" =>
        /\ \A role \in {"tocTitle", "docTitle", "url"} :
              /\ Len(TextsOfRole(role)) = 1
              /\ TextsOfRole(role)[1].page = 1
        /\ TextsOfRole("docTitle")[1].text = CutTo(docTitle, 70)

(***************************************************************************)
(* The extension: chrome.runtime.onMessage listener, handlePDFGeneration   *)
(***************************************************************************)
\* The host names of the URLs a message carries; <<>> stands for a url that
\* new URL() rejects.
HostNames == { <<"a", ".", "e", "x">>, <<>> }

\* hostname.replace(/\./g, '_')
RECURSIVE ReplaceDots(_)
ReplaceDots(h) ==
    IF h = <<>> THEN <<>>
    ELSE <<IF Head(h) = "." THEN "_" ELSE Head(h)>> \o ReplaceDots(Tail(h))

\* new Date().toISOString().replace(/[:.]/g, '-').slice(0, -5), at one instant.
Timestamp ==
    <<"2", "0", "2", "6", "-", "1", "1", "-", "0", "2", "T", "1", "0", "-", "0", "0",
      "-", "0", "0">>

\* `${hostname}_${timestamp}.pdf`
Filename(host) == ReplaceDots(host) \o <<"_">> \o Timestamp \o <<".", "p", "d", "f">>

Success(filename) == [success |-> TRUE, filename |-> filename]
Failure(message) == [success |-> FALSE, error |-> message]
NoResult == [success |-> FALSE, none |-> TRUE]

Message(action, host) ==
    [action |-> action, host |-> host, pc |-> "unsent", result |-> NoResult,
     responses |-> <<>>, callback |-> "none", produced |-> FALSE,
     download |-> "none", notifications |-> <<>>]

\* A handler whose error escapes instead of becoming a result, under a
\* listener that only answers results.
SettleOnErrorUnhandled(req, message) == [req EXCEPT !.pc = "rejected"]

\* catch (error) { return { success: false, error: error.message } }
SettleOnError(req, message) ==
    [req EXCEPT !.pc = "settled", !.result = Failure(message)]

\* A generatePDF message carries any url; another message and a click on
\* the context menu (which passes tab.url) come with a URL.
MessageInputs ==
    { Message("generatePDF", h) : h \in HostNames }
    \cup { Message(a, <<"a", ".", "e", "x">>) : a \in {"other", "menu"} }

InitExt ==
    /\ chromePrinting \in BOOLEAN
    /\ requests \in [1..MaxRequests ->
                       MessageInputs]
    /\ TOCIdle
    /\ ViewportIdle
    /\ CliIdle
    /\ ScrollIdle
    /\ DomIdle
    /\ TextIdle
    /\ PopupIdle

\* The listener is called with a generatePDF message: handlePDFGeneration
\* starts and the listener returns true.
ReceiveGenerate(r) ==
    /\ requests[r].pc = "unsent"
    /\ requests[r].action = "generatePDF"
    /\ requests' = [requests EXCEPT ![r].pc = "query"]
    /\ UNCHANGED chromePrinting
    /\ UNCHANGED <<tocVars, vpVars, cliVars, scrollVars, domVars, textVars, popupVars>>

\* The listener is called with another message: it returns undefined.
ReceiveOther(r) ==
    /\ requests[r].pc = "unsent"
    /\ requests[r].action = "other"
    /\ requests' = [requests EXCEPT ![r].pc = "ignored"]
    /\ UNCHANGED chromePrinting
    /\ UNCHANGED <<tocVars, vpVars, cliVars, scrollVars, domVars, textVars, popupVars>>

\* chrome.tabs.query resolves: with a tab, or with none (throw new Error).
QueryTab(r) ==
    /\ requests[r].pc = "query"
    /\ \E tab \in BOOLEAN :
          requests' = [requests EXCEPT ![r] =
                          IF tab THEN [@ EXCEPT !.pc = "insertCSS"]
                          ELSE SettleOnError(@, "No active tab found")]
    /\ UNCHANGED chromePrinting
    /\ UNCHANGED <<tocVars, vpVars, cliVars, scrollVars, domVars, textVars, popupVars>>

\* chrome.scripting.insertCSS resolves.
InsertCSS(r) ==
    /\ requests[r].pc = "insertCSS"
    /\ requests' = [requests EXCEPT ![r].pc = "executeScript"]
    /\ UNCHANGED chromePrinting
    /\ UNCHANGED <<tocVars, vpVars, cliVars, scrollVars, domVars, textVars, popupVars>>

\* chrome.scripting.executeScript resolves.
ExecuteScript(r) ==
    /\ requests[r].pc = "executeScript"
    /\ requests' = [requests EXCEPT ![r].pc = "filename"]
    /\ UNCHANGED chromePrinting
    /\ UNCHANGED <<tocVars, vpVars, cliVars, scrollVars, domVars, textVars, popupVars>>

\* An awaited chrome call rejects.
ChromeCallRejects(r) ==
    /\ requests[r].pc \in {"query", "insertCSS", "executeScript"}
    /\ requests' = [requests EXCEPT ![r] = SettleOnError(@, "ChromeError")]
    /\ UNCHANGED chromePrinting
    /\ UNCHANGED <<tocVars, vpVars, cliVars, scrollVars, domVars, textVars, popupVars>>

\* new URL(url).hostname: throws for a url that is none.
MakeFilename(r) ==
    /\ requests[r].pc = "filename"
    /\ requests' = [requests EXCEPT ![r] =
                       IF @.host = <<>> THEN SettleOnError(@, "Invalid URL")
                       ELSE [@ EXCEPT !.pc = "print"]]
    /\ UNCHANGED chromePrinting
    /\ UNCHANGED <<tocVars, vpVars, cliVars, scrollVars, domVars, textVars, popupVars>>

\* The statuses chrome.printing.submitJob resolves with.
SubmitStatuses == {"OK", "USER_REJECTED"}

\* if (chrome.printing) await generateWithPrintingAPI(...): submitJob
\* rejects, or resolves with a status that is not looked at.
\* Then return { success: true, filename }.
PrintWithPrintingAPI(r) ==
    /\ requests[r].pc = "print"
    /\ chromePrinting
    /\ \/ requests' = [requests EXCEPT ![r] = SettleOnError(@, "ChromeError")]
       \/ \E jobStatus \in SubmitStatuses :
             requests' = [requests EXCEPT ![r] =
                             [@ EXCEPT !.pc = "settled",
                                       !.result = Success(Filename(requests[r].host)),
                                       !.produced = (jobStatus = "OK"),
                                       !.download = IF jobStatus = "OK" THEN "started"
                                                    ELSE "none"]]
    /\ UNCHANGED chromePrinting
    /\ UNCHANGED <<tocVars, vpVars, cliVars, scrollVars, domVars, textVars, popupVars>>

\* else await chrome.tabs.printToPDF(PDF_SETTINGS, callback): a TypeError
\* where the function does not exist; where it does, the call returns at
\* once, the callback is still to come, and the handler goes on to
\* return { success: true, filename }.
PrintWithFallback(r) ==
    /\ requests[r].pc = "print"
    /\ ~chromePrinting
    /\ \E defined \in BOOLEAN :
          requests' = [requests EXCEPT ![r] =
                          IF defined
                          THEN [@ EXCEPT !.pc = "settled",
                                         !.result = Success(Filename(requests[r].host)),
                                         !.callback = "pending"]
                          ELSE SettleOnError(@, "TypeError")]
    /\ UNCHANGED chromePrinting
    /\ UNCHANGED <<tocVars, vpVars, cliVars, scrollVars, domVars, textVars, popupVars>>

PrintPdf(r) == PrintWithPrintingAPI(r) \/ PrintWithFallback(r)

\* The callback of printToPDF runs: chrome.runtime.lastError is set and the
\* callback throws, or the PDF is there and chrome.downloads.download
\* starts the download or reports an error, which is logged.
PrintCallback(r) ==
    /\ requests[r].callback = "pending"
    /\ \E outcome \in {"lastError", "downloadError", "downloaded"} :
          requests' = [requests EXCEPT ![r] =
                          [@ EXCEPT !.callback = "done",
                                    !.produced = (outcome # "lastError"),
                                    !.download = CASE outcome = "downloaded" -> "started"
                                                   [] outcome = "downloadError" -> "failed"
                                                   [] OTHER -> "none"]]
    /\ UNCHANGED chromePrinting
    /\ UNCHANGED <<tocVars, vpVars, cliVars, scrollVars, domVars, textVars, popupVars>>

\* contextMenus.onClicked with menuItemId 'generate-pdf': the listener
\* calls handlePDFGeneration(tab.url, tab.title).
ClickMenu(r) ==
    /\ requests[r].pc = "unsent"
    /\ requests[r].action = "menu"
    /\ requests' = [requests EXCEPT ![r].pc = "query"]
    /\ UNCHANGED chromePrinting
    /\ UNCHANGED <<tocVars, vpVars, cliVars, scrollVars, domVars, textVars, popupVars>>

\* if (result.success) chrome.notifications.create({title: 'PDF Generated'});
\* the catch block is for a handlePDFGeneration that throws.
MenuNotifications(result) ==
    IF result.success THEN <<"PDF Generated">> ELSE <<>>

\* The context-menu listener after await handlePDFGeneration(...).
NotifyMenu(r) ==
    /\ requests[r].pc = "settled"
    /\ requests[r].action = "menu"
    /\ requests' = [requests EXCEPT ![r].pc = "finished",
                                    ![r].notifications =
                                        @ \o MenuNotifications(requests[r].result)]
    /\ UNCHANGED chromePrinting
    /\ UNCHANGED <<tocVars, vpVars, cliVars, scrollVars, domVars, textVars, popupVars>>

\* .then(result => sendResponse(result))
SendResponse(r) ==
    /\ requests[r].pc = "settled"
    /\ requests[r].action = "generatePDF"
    /\ requests' = [requests EXCEPT ![r].pc = "answered",
                                    ![r].responses = Append(@, requests[r].result)]
    /\ UNCHANGED chromePrinting
    /\ UNCHANGED <<tocVars, vpVars, cliVars, scrollVars, domVars, textVars, popupVars>>

HandlerStep(r) ==
    \/ QueryTab(r)
    \/ InsertCSS(r)
    \/ ExecuteScript(r)
    \/ ChromeCallRejects(r)
    \/ MakeFilename(r)
    \/ PrintPdf(r)
    \/ SendResponse(r)
    \/ NotifyMenu(r)

NextExt ==
    \E r \in 1..MaxRequests :
        \/ ReceiveGenerate(r)
        \/ ReceiveOther(r)
        \/ ClickMenu(r)
        \/ HandlerStep(r)
        \/ PrintCallback(r)

SpecExt == InitExt /\ [][NextExt]_vars

\* Every promise the handler awaits settles, and the promise reactions run.
SpecExtFair == SpecExt /\ \A r \in 1..MaxRequests : WF_vars(HandlerStep(r))

IsAnswer(resp) ==
    \/ resp.success /\ DOMAIN resp = {"success", "filename"}
    \/ ~resp.success /\ DOMAIN resp = {"success", "error"}

Received(r) == requests[r].action = "generatePDF" /\ requests[r].pc # "unsent"

C20_AtMostOneAnswer ==
    \A r \in 1..MaxRequests :
        /\ Len(requests[r].responses) <= 1
        /\ \A k \in 1..Len(requests[r].responses) : IsAnswer(requests[r].responses[k])
        /\ requests[r].responses # <<>> => Received(r)

C20_AnswerStays ==
    \A r \in 1..MaxRequests :
        requests[r].responses # <<>> => requests'[r].responses = requests[r].responses

\* C20: every generatePDF message the listener receives is answered, with
\* {success: true, filename} or {success: false, error}, and never a second
\* time; no other message is answered.  An answer stays, so "answered" is:
\* from some point on every received message has its one answer.
C20_AnsweredExactlyOnce ==
    /\ []C20_AtMostOneAnswer
    /\ [][C20_AnswerStays]_vars
    /\ <>[](\A r \in 1..MaxRequests : Received(r) => Len(requests[r].responses) = 1)

C20_Witness ==
    /\ requests[1].action = "generatePDF"
    /\ requests[2].action = "generatePDF"
    /\ Len(requests[1].responses) = 1
    /\ Len(requests[2].responses) = 1
    /\ requests[1].responses[1].success
    /\ ~requests[2].responses[1].success

(***************************************************************************)
(* Further properties of addTOC (checked under SpecTOC)                    *)
(***************************************************************************)
LayoutDone == tocPc \in {"merged", "written"} /\ finalPdf # NoFile

\* C21: addTOC draws one entry per heading, in the order of the heading
\* sequence, at the indent (level - 1) * 20; an entry of a higher level
\* never indents less than an entry of a lower level.
C21_OneEntryPerHeadingIndented ==
    /\ Len(drawn) <= Len(headings)
    /\ tocPc = "layout" => Len(drawn) = hIdx - 1
    /\ LayoutDone => Len(drawn) = Len(headings)
    /\ \A k \in 1..Len(drawn) :
          /\ drawn[k].index = headings[k].index
          /\ drawn[k].level = headings[k].level
          /\ drawn[k].x = (headings[k].level - 1) * 20
    /\ \A j, k \in 1..Len(drawn) :
          drawn[j].level < drawn[k].level => drawn[j].x <= drawn[k].x

C21_Witness ==
    /\ LayoutDone
    /\ Len(drawn) >= 3
    /\ drawn[1].level = 1 /\ drawn[1].x = 0
    /\ drawn[2].level = 2 /\ drawn[2].x = 20
    /\ drawn[3].level = 3 /\ drawn[3].x = 40

\* C22: with P >= 1 content pages and H >= 1 headings, floor(i * P / H) is at
\* most P - 1 for every index i < H, so the written estimate is the
\* unclamped currentPage + floor(i * P / H); the first heading gets
\* currentPage.
C22_ClampNeverApplies ==
    PageCount >= 1 =>
        \A k \in 1..Len(drawn) :
            /\ ((k - 1) * PageCount) \div Len(headings) <= PageCount - 1
            /\ drawn[k].est = 2 + (((k - 1) * PageCount) \div Len(headings))
            /\ k = 1 => drawn[k].est = 2

C22_Witness ==
    /\ LayoutDone
    /\ PageCount = MaxPages
    /\ Len(drawn) = MaxHeadings
    /\ drawn[Len(drawn)].est = 2 + PageCount - 1

\* C23: the estimated page numbers are non-decreasing in heading order,
\* also across entries laid out on different TOC pages.
C23_EstimatesNonDecreasing ==
    \A j, k \in 1..Len(drawn) : j < k => drawn[j].est <= drawn[k].est

C23_Witness ==
    /\ LayoutDone
    /\ tocAllocated >= 2
    /\ \E j, k \in 1..Len(drawn) :
          /\ j < k
          /\ drawn[j].tocAt = 1
          /\ drawn[k].tocAt = 2
          /\ drawn[j].est < drawn[k].est

\* C24: every entry is drawn with the cursor between the bottom limit and
\* the top margin: margin + 50 <= yPosition <= height - margin.
C24_CursorInsideMargins ==
    \A k \in 1..Len(drawn) :
        /\ drawn[k].y >= 5000 + 5000
        /\ drawn[k].y <= 84189 - 5000

C24_Witness ==
    /\ LayoutDone
    /\ \E k \in 2..Len(drawn) :
          /\ drawn[k].allocated
          /\ drawn[k].y = 84189 - 5000
          /\ drawn[k - 1].y < 5000 + 5000 + 2000
          /\ drawn[k - 1].level # drawn[k].level

(***************************************************************************)
(* Further properties of extractHeadings (checked under SpecExtract)       *)
(***************************************************************************)
IdsDistinct(hs) == \A j, k \in 1..Len(hs) : j # k => hs[j].id # hs[k].id

RunsAgree ==
    \A n \in 2..Len(runs) :
        /\ Len(runs[n]) = Len(runs[1])
        /\ \A k \in 1..Len(runs[n]) :
              /\ runs[n][k].level = runs[1][k].level
              /\ runs[n][k].text = runs[1][k].text
              /\ runs[n][k].id = runs[1][k].id

\* C29: the ids of a returned heading sequence are pairwise distinct, and a
\* second run on the same document returns the same (level, text, id)
\* records.
C29_IdsDistinctRunsAgree ==
    /\ \A n \in 1..Len(runs) : IdsDistinct(runs[n])
    /\ RunsAgree

(***************************************************************************)
(* Further properties of the CLI action (checked under SpecBatch)          *)
(***************************************************************************)
ProcessEnded == cliPc \in {"done", "exit1", "help"}

\* C30: in every run that launched the browser, browser.close() has been
\* called when the process ends: on normal completion, after failed jobs,
\* and when a setup step after the launch fails.
C30_BrowserClosedBeforeExit ==
    ProcessEnded => browser # "open"

(***************************************************************************)
(* Further properties of the extension (checked under SpecExt)             *)
(***************************************************************************)
Returned(r) == requests[r].pc \in {"settled", "answered", "finished"}

\* C27: handlePDFGeneration returns {success: true, filename} only when the
\* PDF has been produced and its download started without error; an error
\* of the print or download step gives {success: false, error}.
C27_SuccessOnlyAfterDownload ==
    \A r \in 1..MaxRequests :
        (Returned(r) /\ requests[r].result.success) =>
            /\ requests[r].produced
            /\ requests[r].download = "started"

\* C28: a context-menu generation that has ended has created exactly one
\* notification: 'PDF Generated' on success, 'PDF Generation Failed' on
\* failure.
C28_MenuClickEndsInOneNotification ==
    \A r \in 1..MaxRequests :
        (requests[r].action = "menu" /\ requests[r].pc = "finished") =>
            /\ Len(requests[r].notifications) = 1
            /\ requests[r].result.success =>
                  requests[r].notifications[1] = "PDF Generated"
            /\ ~requests[r].result.success =>
                  requests[r].notifications[1] = "PDF Generation Failed"

(***************************************************************************)
(* The popup: the click handler of the generate button, showStatus         *)
(***************************************************************************)
\* setTimeout(..., 5000) of showStatus and setTimeout(..., 2000) before
\* window.close(), in seconds.
HideAfter == 5
CloseAfter == 2

\* showStatus: the element shows the message from now on.
Shown(type) == [type |-> type, visible |-> TRUE, since |-> now]

\* showStatus: if (type !== 'success') setTimeout(hide, 5000); no timer is
\* ever cleared.
TimersAfterShow(type) ==
    IF type # "success" THEN timers \cup {now + HideAfter} ELSE timers

InitPopup ==
    /\ now = 0
    /\ clicks = 0
    /\ handlers = <<>>
    /\ buttonDisabled = FALSE
    /\ status = NoStatus
    /\ timers = {}
    /\ closeAt = NoTimer
    /\ closed = FALSE
    /\ hides = {}
    /\ TOCIdle
    /\ ViewportIdle
    /\ CliIdle
    /\ ScrollIdle
    /\ DomIdle
    /\ TextIdle
    /\ ExtIdle

\* A second passes; a timer that is due fires before time goes on.
Tick ==
    /\ ~closed
    /\ now < MaxTime
    /\ \A d \in timers : d > now
    /\ closeAt = NoTimer \/ closeAt > now
    /\ now' = now + 1
    /\ UNCHANGED <<clicks, handlers, buttonDisabled, status, timers, closeAt, closed, hides>>
    /\ UNCHANGED <<tocVars, vpVars, cliVars, scrollVars, domVars, textVars, extVars>>

\* A click on the enabled button: the handler starts and awaits
\* chrome.tabs.query.
Click ==
    /\ ~closed
    /\ ~buttonDisabled
    /\ clicks < MaxClicks
    /\ clicks' = clicks + 1
    /\ handlers' = Append(handlers, "query")
    /\ UNCHANGED <<now, buttonDisabled, status, timers, closeAt, closed, hides>>
    /\ UNCHANGED <<tocVars, vpVars, cliVars, scrollVars, domVars, textVars, extVars>>

\* chrome.tabs.query resolved with a page: the button is disabled, the info
\* message is shown and the message is sent.
QueryGivesPage(h) ==
    /\ ~closed
    /\ handlers[h] = "query"
    /\ buttonDisabled' = TRUE
    /\ status' = Shown("info")
    /\ timers' = TimersAfterShow("info")
    /\ handlers' = [handlers EXCEPT ![h] = "waiting"]
    /\ UNCHANGED <<now, clicks, closeAt, closed, hides>>
    /\ UNCHANGED <<tocVars, vpVars, cliVars, scrollVars, domVars, textVars, extVars>>

\* chrome.tabs.query resolved with no tab or with a tab that cannot be
\* printed: an error message, and the handler returns.
QueryGivesNoPage(h) ==
    /\ ~closed
    /\ handlers[h] = "query"
    /\ status' = Shown("error")
    /\ timers' = TimersAfterShow("error")
    /\ handlers' = [handlers EXCEPT ![h] = "returned"]
    /\ UNCHANGED <<now, clicks, buttonDisabled, closeAt, closed, hides>>
    /\ UNCHANGED <<tocVars, vpVars, cliVars, scrollVars, domVars, textVars, extVars>>

\* The callback of sendMessage runs with the response: the button is
\* enabled again; on success the success message and the timer that closes
\* the popup, else the error message.
ResponseArrives(h) ==
    /\ ~closed
    /\ handlers[h] = "waiting"
    /\ buttonDisabled' = FALSE
    /\ \E success \in BOOLEAN :
          /\ status' = Shown(IF success THEN "success" ELSE "error")
          /\ timers' = TimersAfterShow(IF success THEN "success" ELSE "error")
          /\ closeAt' = IF success /\ closeAt = NoTimer THEN now + CloseAfter ELSE closeAt
    /\ handlers' = [handlers EXCEPT ![h] = "answered"]
    /\ UNCHANGED <<now, clicks, closed, hides>>
    /\ UNCHANGED <<tocVars, vpVars, cliVars, scrollVars, domVars, textVars, extVars>>

\* An auto-hide timer fires: statusDiv.style.display = 'none'.
HideTimerFires ==
    /\ ~closed
    /\ now \in timers
    /\ timers' = timers \ {now}
    /\ hides' = IF status.visible
                THEN hides \cup {[type |-> status.type, shownFor |-> now - status.since]}
                ELSE hides
    /\ status' = [status EXCEPT !.visible = FALSE]
    /\ UNCHANGED <<now, clicks, handlers, buttonDisabled, closeAt, closed>>
    /\ UNCHANGED <<tocVars, vpVars, cliVars, scrollVars, domVars, textVars, extVars>>

\* The timer set after a success fires: window.close().
CloseTimerFires ==
    /\ ~closed
    /\ closeAt = now
    /\ closed' = TRUE
    /\ UNCHANGED <<now, clicks, handlers, buttonDisabled, status, timers, closeAt, hides>>
    /\ UNCHANGED <<tocVars, vpVars, cliVars, scrollVars, domVars, textVars, extVars>>

NextPopup ==
    \/ Tick
    \/ Click
    \/ \E h \in 1..MaxClicks :
          /\ h <= Len(handlers)
          /\ \/ QueryGivesPage(h)
             \/ QueryGivesNoPage(h)
             \/ ResponseArrives(h)
    \/ HideTimerFires
    \/ CloseTimerFires

SpecPopup == InitPopup /\ [][NextPopup]_vars

Outstanding == { h \in 1..Len(handlers) : handlers[h] = "waiting" }

\* C25: a popup has at most one generatePDF request outstanding: a second
\* click cannot send a second message before the response to the first.
C25_OneRequestOutstanding ==
    Cardinality(Outstanding) <= 1

\* C26: an auto-hide timer only hides the message it was set for: what it
\* hides has been visible for the full 5 seconds and is no success message.
C26_MessageShownFullTime ==
    \A e \in hides : e.type # "success" /\ e.shownFor = 5

====
